---------------------------- MODULE Spec2Model ----------------------------
(***************************************************************************)
(* A model of the path_finding crate: the Grid (grid.rs), the four         *)
(* stepwise searches Bfs, Dfs, Dijkstra and AStar (bfs.rs, dfs.rs,         *)
(* dijkstra.rs, astar.rs) behind the PathfindingAlgorithm trait            *)
(* (pathfinding.rs) and the cave generator (cellular_automata.rs).         *)
(*                                                                         *)
(* Coordinates are 0-based as in the source; a position is <<x, y>>.       *)
(* A Vec is a sequence (1-based), so cells[y][x] of the source is          *)
(* cells[y + 1][x + 1] here.  A HashMap is a function whose DOMAIN is its  *)
(* key set, a HashSet is a set, a BinaryHeap is the set of its entries     *)
(* (the searches never push two equal entries: every push of a position    *)
(* carries a strictly smaller cost than the one before).                   *)
(***************************************************************************)
EXTENDS Integers, Sequences, FiniteSets, TLC

VARIABLES
    grid,         \* Grid {width, height, cells}: the grid searched, edited or generated
    alg,          \* which implementation of PathfindingAlgorithm the instance is
    start,        \* field start
    end,          \* field end
    queue,        \* Bfs.queue (VecDeque, front = head) / Dfs.stack (Vec, top = last)
    heap,         \* Dijkstra.queue / AStar.queue (BinaryHeap<Node>)
    visited,      \* field visited
    parents,      \* field parents
    distances,    \* Dijkstra.distances / AStar.g_costs
    node_states,  \* field node_states
    finished,     \* field finished
    found_path,   \* field found_path
    ret,          \* the value returned by the last call of step()
    branch,       \* the exit of step() the last call took ("new": no call yet)
    pops,         \* history: how many times step() has popped each position
    gen,          \* CellularAutomata {smoothing_passes}; wall_change is folded into rng
    rng,          \* the seeded StdRng stream: what generate() will draw from it
    grid2,        \* the grid of a second run of generate() with the same seed
    pc,           \* progress of the two runs of generate(); in the driver its
                  \* locals app_state, current_algorithm and first_run, and the
                  \* handler of the frame loop it is at
    op,           \* the last call made on the Grid: name and arguments
    got,          \* what the last Grid::get returned
    panicked      \* a Grid call indexed outside cells (a Rust panic)

gridVars == <<grid>>
searchVars == <<alg, start, end, queue, heap, visited, parents, distances,
                node_states, finished, found_path, ret, branch, pops>>
caveVars == <<gen, rng, grid2, pc>>
opVars == <<op, got, panicked>>
vars == <<grid, alg, start, end, queue, heap, visited, parents, distances,
          node_states, finished, found_path, ret, branch, pops, gen, rng, grid2,
          pc,
          op, got, panicked>>

(***************************************************************************)
(* Bounds of the model.                                                    *)
(***************************************************************************)
\* largest width and height of a searched grid
Width == 3
Height == 3
\* largest number of Wall cells of a searched grid
MaxWalls == 2
\* width and height of a generated grid
CaveWidth == 5
CaveHeight == 5
\* largest smoothing_passes of a generator
MaxPasses == 1
\* largest width and height of a grid handed to generate() to try its sizes
MaxSize == 4
\* largest width and height of a grid whose Wall neighbours are counted
CountWidth == 5
CountHeight == 5
\* largest number of cells set in such a grid
MaxCountSets == 1
\* width and height of a grid generated stage by stage
StageWidth == 7
StageHeight == 5
\* largest width and height of a grid that get and set are called on
GridWidth == 2
GridHeight == 2
\* largest coordinate handed to get and set
MaxCoord == 2
\* the mouse of the driver is over a cell of columns 1..MaxMouseX and rows
\* 1..MaxMouseY
MaxMouseX == 2
MaxMouseY == 1
\* most draws below wall_change in a stream that the driver's generator reads
MaxWallDraws == 1
\* largest width and height of a grid that neighbors and the heuristic are
\* called on
CallWidth == 4
CallHeight == 4

(***************************************************************************)
(* grid.rs                                                                 *)
(***************************************************************************)
Cell == {"Empty", "Wall", "Start", "End"}

\* Option::None of Grid::get
None == "None"

Abs(a) == IF a < 0 THEN -a ELSE a
Range(s) == {s[i] : i \in 1..Len(s)}
RECURSIVE Reverse(_)
Reverse(s) == IF s = <<>> THEN <<>> ELSE Append(Reverse(Tail(s)), Head(s))

\* Grid::new: vec![vec![Cell::Empty; width]; height]
GridNew(w, h) ==
    [width |-> w, height |-> h,
     cells |-> [y \in 1..h |-> [x \in 1..w |-> "Empty"]]]

\* Grid::get: self.cells.get(y).and_then(|row| row.get(x)).copied()
GridGet(g, x, y) ==
    IF y < Len(g.cells)
    THEN IF x < Len(g.cells[y + 1]) THEN g.cells[y + 1][x + 1] ELSE None
    ELSE None

\* a bounds test that lets the first column and row beyond the grid through
SetInBoundsLoose(g, x, y) == x <= g.width /\ y <= g.height

\* the bounds test of Grid::set
SetInBounds(g, x, y) == x < g.width /\ y < g.height

\* Grid::set: the write happens only inside the bounds test
GridSet(g, x, y, c) ==
    IF SetInBounds(g, x, y) THEN [g EXCEPT !.cells[y + 1][x + 1] = c] ELSE g

\* self.cells[y][x] of Grid::set panics when the index is outside the Vecs
GridSetPanics(g, x, y) ==
    /\ SetInBounds(g, x, y)
    /\ ~(y < Len(g.cells) /\ x < Len(g.cells[y + 1]))

\* not the loops of Grid::neighbors: dx in the outer loop and dy in the inner
OffsetsByColumn ==
    << <<-1, -1>>, <<-1, 0>>, <<-1, 1>>,
       <<0, -1>>,  <<0, 0>>,  <<0, 1>>,
       <<1, -1>>,  <<1, 0>>,  <<1, 1>> >>

\* the offsets <<dx, dy>> in the order the two loops of Grid::neighbors visit
\* them: dy outermost, dx innermost
Offsets ==
    << <<-1, -1>>, <<0, -1>>, <<1, -1>>,
       <<-1, 0>>,  <<0, 0>>,  <<1, 0>>,
       <<-1, 1>>,  <<0, 1>>,  <<1, 1>> >>

\* a Grid::neighbors without the test that drops the diagonals
NeighborsWithDiagonals(g, x, y) ==
    LET keep(o) ==
            /\ ~(o[2] = 0 /\ o[1] = 0)
            /\ y + o[2] >= 0 /\ y + o[2] < g.height
            /\ x + o[1] >= 0 /\ x + o[1] < g.width
        sel == SelectSeq(Offsets, keep)
    IN  [i \in 1..Len(sel) |-> <<x + sel[i][1], y + sel[i][2]>>]

\* Grid::neighbors: the pushes in loop order
Neighbors(g, x, y) ==
    LET keep(o) ==
            LET dx == o[1]
                dy == o[2]
                xx == x + dx
                yy == y + dy
            IN  /\ ~(dy = 0 /\ dx = 0)
                /\ yy >= 0 /\ yy < g.height /\ xx >= 0 /\ xx < g.width
                /\ \/ (dy = 0 /\ (dx = -1 \/ dx = 1))
                   \/ ((dy = -1 \/ dy = 1) /\ dx = 0)
        sel == SelectSeq(Offsets, keep)
    IN  [i \in 1..Len(sel) |-> <<x + sel[i][1], y + sel[i][2]>>]

\* the in-bounds positions of a grid
Positions(g) == (0..(g.width - 1)) \X (0..(g.height - 1))

\* the positions of a grid holding cell kind c
CellsOf(g, c) == {p \in Positions(g) : GridGet(g, p[1], p[2]) = c}

(***************************************************************************)
(* pathfinding.rs, and what the four searches share                        *)
(***************************************************************************)
NodeState == {"Unvisited", "InQueue", "Visited", "Path"}

Algs == {"Bfs", "Dfs", "Dijkstra", "AStar"}

\* HashMap::new()
EmptyMap == [k \in {} |-> 0]

\* HashMap::insert
Put(m, k, v) == [q \in DOMAIN m \cup {k} |-> IF q = k THEN v ELSE m[q]]

\* u32::MAX, the cost of a position the cost map has no entry for.  It stands
\* here as the largest integer TLC holds (2^31 - 1); every cost a search
\* records is below the number of cells of the grid.
U32Max == 2147483647

\* u32 addition, wrapping at U32Max as a release build wraps
AddU32(a, b) == IF a > U32Max - b THEN a - (U32Max - b) - 1 ELSE a + b

\* map.get(&k).unwrap_or(&u32::MAX)
GetOrMax(m, k) == IF k \in DOMAIN m THEN m[k] ELSE U32Max

\* not IsWall: the expansion without its Wall test
NeverWall(g, n) == FALSE

\* the skip `if let Some(cell) = grid.get(nx, ny) { if cell == Cell::Wall { continue; } }`
IsWall(g, n) == GridGet(g, n[1], n[2]) = "Wall"

\* the instance as a record, for the operators that compute a step
Self ==
    [queue |-> queue, heap |-> heap, visited |-> visited, parents |-> parents,
     distances |-> distances, node_states |-> node_states,
     finished |-> finished, found_path |-> found_path]

\* the while loop shared by get_path and mark_path: the positions it passes,
\* from end backwards, start excluded.  The loop of the source has no exit on a
\* cycle; a walk longer than the number of cells of the grid is cut here.
RECURSIVE WalkBack(_, _, _, _, _)
WalkBack(par, s, current, path, fuel) ==
    IF current = s THEN path
    ELSE LET p == Append(path, current)
         IN  IF current \in DOMAIN par /\ fuel > 0
             THEN WalkBack(par, s, par[current], p, fuel - 1)
             ELSE p

\* not MarkPath: the walk without the insert for start after the loop
MarkPathWithoutStart(ns, par, s, e, fuel) ==
    LET on == Range(WalkBack(par, s, e, <<>>, fuel))
    IN  [q \in DOMAIN ns \cup on |-> IF q \in on THEN "Path" ELSE ns[q]]

\* mark_path (the same in the four files)
MarkPath(ns, par, s, e, fuel) ==
    LET on == Range(WalkBack(par, s, e, <<>>, fuel)) \cup {s}
    IN  [q \in DOMAIN ns \cup on |-> IF q \in on THEN "Path" ELSE ns[q]]

\* not PathOf: get_path without path.reverse()
PathOfUnreversed(par, s, e, fuel) == Append(WalkBack(par, s, e, <<>>, fuel), s)

\* the body of get_path after the found_path test
PathOf(par, s, e, fuel) == Reverse(Append(WalkBack(par, s, e, <<>>, fuel), s))

\* get_path
GetPath ==
    IF ~found_path THEN <<>>
    ELSE PathOf(parents, start, end, grid.width * grid.height)

\* get_node_state
GetNodeState(x, y) ==
    IF <<x, y>> \in DOMAIN node_states THEN node_states[<<x, y>>] ELSE "Unvisited"

\* the first lines of step(): `if self.finished { return false; }`
StepNoop(self) == [self |-> self, ret |-> FALSE, branch |-> "noop"]

\* not StepEmpty: the None arm returns false and forgets to set finished
StepEmptyForgets(self) == [self |-> self, ret |-> FALSE, branch |-> "empty"]

\* the None arm of the pop: `self.finished = true; return false;`
StepEmpty(self) ==
    [self |-> [self EXCEPT !.finished = TRUE], ret |-> FALSE, branch |-> "empty"]

\* not StepStale: the pop of a visited position ends the search
StepStaleFinishes(self) ==
    [self |-> [self EXCEPT !.finished = TRUE], ret |-> FALSE, branch |-> "stale"]

\* a popped position that is already visited: `return true;` (self holds the pop)
StepStale(self) == [self |-> self, ret |-> TRUE, branch |-> "stale"]

\* not Visit: the popped position is tagged and not put into visited
VisitOnlyTags(self, current) ==
    [self EXCEPT !.node_states = Put(@, current, "Visited")]

\* visited.insert(current); node_states.insert(current, Visited)
Visit(self, current) ==
    [self EXCEPT !.visited = @ \cup {current},
                 !.node_states = Put(@, current, "Visited")]

\* the arm `if current == self.end`: finished, found_path, mark_path()
StepEnd(self, s, e, fuel) ==
    [self |-> [self EXCEPT !.finished = TRUE, !.found_path = TRUE,
                           !.node_states = MarkPath(@, self.parents, s, e, fuel)],
     ret |-> FALSE, branch |-> "end"]


\* not AlreadyFinished: step() without its test of finished
NeverFinished(self) == FALSE

\* `if self.finished` at the head of step()
AlreadyFinished(self) == self.finished

\* not StepExpanded: the loop over the neighbours is followed by `false`
StepExpandedReturnsFalse(self) ==
    [self |-> self, ret |-> FALSE, branch |-> "expand"]

\* the result of a step that expanded the neighbours
StepExpanded(self) == [self |-> self, ret |-> TRUE, branch |-> "expand"]

(***************************************************************************)
(* bfs.rs                                                                  *)
(***************************************************************************)
\* not NewBfs: the start is queued and given no node state
NewBfsUntagged(s, e) ==
    [queue |-> <<s>>, heap |-> {}, visited |-> {}, parents |-> EmptyMap,
     distances |-> EmptyMap, node_states |-> EmptyMap,
     finished |-> FALSE, found_path |-> FALSE]

\* Bfs::new
NewBfs(s, e) ==
    [queue |-> <<s>>, heap |-> {}, visited |-> {}, parents |-> EmptyMap,
     distances |-> EmptyMap, node_states |-> Put(EmptyMap, s, "InQueue"),
     finished |-> FALSE, found_path |-> FALSE]

\* not BfsExpand: a loop without the test of the InQueue tag
RECURSIVE BfsExpandNoTagTest(_, _, _, _)
BfsExpandNoTagTest(g, self, current, nbrs) ==
    IF nbrs = <<>> THEN self
    ELSE LET n == Head(nbrs)
             skip == IsWall(g, n) \/ n \in self.visited
             next == IF skip THEN self
                     ELSE [self EXCEPT !.parents = Put(@, n, current),
                                       !.queue = Append(@, n),
                                       !.node_states = Put(@, n, "InQueue")]
         IN  BfsExpandNoTagTest(g, next, current, Tail(nbrs))

\* the for loop of Bfs::step over grid.neighbors(current)
RECURSIVE BfsExpand(_, _, _, _)
BfsExpand(g, self, current, nbrs) ==
    IF nbrs = <<>> THEN self
    ELSE LET n == Head(nbrs)
             skip == \/ IsWall(g, n)
                     \/ n \in self.visited
                     \/ /\ n \in DOMAIN self.node_states
                        /\ self.node_states[n] = "InQueue"
             next == IF skip THEN self
                     ELSE [self EXCEPT !.parents = Put(@, n, current),
                                       !.queue = Append(@, n),
                                       !.node_states = Put(@, n, "InQueue")]
         IN  BfsExpand(g, next, current, Tail(nbrs))

\* Bfs::step
BfsStepOf(g, self, s, e) ==
    IF AlreadyFinished(self) THEN StepNoop(self)
    ELSE IF self.queue = <<>> THEN StepEmpty(self)
    ELSE LET current == Head(self.queue)
             popped == [self EXCEPT !.queue = Tail(@)]
         IN  IF current \in popped.visited THEN StepStale(popped)
             ELSE LET v == Visit(popped, current)
                  IN  IF current = e THEN StepEnd(v, s, e, g.width * g.height)
                      ELSE StepExpanded(
                               BfsExpand(g, v, current,
                                         Neighbors(g, current[1], current[2])))

(***************************************************************************)
(* dfs.rs                                                                  *)
(***************************************************************************)
\* Dfs::new
NewDfs(s, e) ==
    [queue |-> <<s>>, heap |-> {}, visited |-> {}, parents |-> EmptyMap,
     distances |-> EmptyMap, node_states |-> Put(EmptyMap, s, "InQueue"),
     finished |-> FALSE, found_path |-> FALSE]

\* not DfsExpand: a loop without the test of the visited set
RECURSIVE DfsExpandNoVisitedTest(_, _, _, _)
DfsExpandNoVisitedTest(g, self, current, nbrs) ==
    IF nbrs = <<>> THEN self
    ELSE LET n == Head(nbrs)
             next == IF IsWall(g, n) THEN self
                     ELSE [self EXCEPT
                              !.parents = IF n \in DOMAIN @ THEN @
                                          ELSE Put(@, n, current),
                              !.queue = Append(@, n),
                              !.node_states = Put(@, n, "InQueue")]
         IN  DfsExpandNoVisitedTest(g, next, current, Tail(nbrs))

\* the for loop of Dfs::step: no "already on the stack" test, and the parent is
\* written only when the position has none
RECURSIVE DfsExpand(_, _, _, _)
DfsExpand(g, self, current, nbrs) ==
    IF nbrs = <<>> THEN self
    ELSE LET n == Head(nbrs)
             skip == IsWall(g, n) \/ n \in self.visited
             next == IF skip THEN self
                     ELSE [self EXCEPT
                              !.parents = IF n \in DOMAIN @ THEN @
                                          ELSE Put(@, n, current),
                              !.queue = Append(@, n),
                              !.node_states = Put(@, n, "InQueue")]
         IN  DfsExpand(g, next, current, Tail(nbrs))

\* Dfs::step: the popped position is not tested against visited
DfsStepOf(g, self, s, e) ==
    IF AlreadyFinished(self) THEN StepNoop(self)
    ELSE IF self.queue = <<>> THEN StepEmpty(self)
    ELSE LET current == self.queue[Len(self.queue)]
             popped == [self EXCEPT !.queue = SubSeq(@, 1, Len(@) - 1)]
             v == Visit(popped, current)
         IN  IF current = e THEN StepEnd(v, s, e, g.width * g.height)
             ELSE StepExpanded(
                      DfsExpand(g, v, current,
                                Neighbors(g, current[1], current[2])))

(***************************************************************************)
(* dijkstra.rs and astar.rs                                                *)
(***************************************************************************)
\* u32::cmp
Cmp(a, b) == IF a < b THEN "Less" ELSE IF a > b THEN "Greater" ELSE "Equal"

\* not DijkstraCmp: the comparison not reversed, a max-heap on distance
DijkstraCmpForward(self, other) == Cmp(self.distance, other.distance)

\* impl Ord for Node (dijkstra.rs)
DijkstraCmp(self, other) == Cmp(other.distance, self.distance)

\* not AStarCmp: equal f_cost is settled in favour of the smaller g_cost
AStarCmpSmallerG(self, other) ==
    LET c == Cmp(other.f_cost, self.f_cost)
    IN  IF c = "Equal" THEN Cmp(other.g_cost, self.g_cost) ELSE c

\* impl Ord for Node (astar.rs)
AStarCmp(self, other) ==
    LET c == Cmp(other.f_cost, self.f_cost)
    IN  IF c = "Equal" THEN Cmp(self.g_cost, other.g_cost) ELSE c

\* what BinaryHeap::pop may return: an entry no other entry is greater than
\* (which of several equal entries comes out is the heap's own business)
DijkstraHeapTop(h) == {n \in h : \A m \in h : DijkstraCmp(m, n) # "Greater"}

AStarHeapTop(h) == {n \in h : \A m \in h : AStarCmp(m, n) # "Greater"}

\* a heuristic that forgets the two calls of abs()
HeuristicSigned(from, to) == (from[1] - to[1]) + (from[2] - to[2])

\* heuristic_manhantan; `as i32` leaves a coordinate below 2^31 as it is, and
\* so every coordinate of the grids here
HeuristicManhattan(from, to) == Abs(from[1] - to[1]) + Abs(from[2] - to[2])

\* Dijkstra::new
NewDijkstra(s, e) ==
    [queue |-> <<>>, heap |-> {[position |-> s, distance |-> 0]},
     visited |-> {}, parents |-> EmptyMap,
     distances |-> Put(EmptyMap, s, 0),
     node_states |-> Put(EmptyMap, s, "InQueue"),
     finished |-> FALSE, found_path |-> FALSE]

\* AStar::new: the start is pushed, and is given no node state
NewAStar(s, e) ==
    [queue |-> <<>>,
     heap |-> {[position |-> s, g_cost |-> 0,
                f_cost |-> HeuristicManhattan(s, e)]},
     visited |-> {}, parents |-> EmptyMap,
     distances |-> Put(EmptyMap, s, 0),
     node_states |-> EmptyMap,
     finished |-> FALSE, found_path |-> FALSE]

\* not DijkstraExpand: a loop that relaxes on `new_dist <= old_dist`
RECURSIVE DijkstraExpandNotStrict(_, _, _, _, _)
DijkstraExpandNotStrict(g, self, pos, current_dist, nbrs) ==
    IF nbrs = <<>> THEN self
    ELSE LET n == Head(nbrs)
             skip == IsWall(g, n) \/ n \in self.visited
             new_dist == AddU32(current_dist, 1)
             old_dist == GetOrMax(self.distances, n)
             next == IF ~skip /\ new_dist <= old_dist
                     THEN [self EXCEPT
                              !.distances = Put(@, n, new_dist),
                              !.parents = Put(@, n, pos),
                              !.heap = @ \cup {[position |-> n,
                                                distance |-> new_dist]},
                              !.node_states = Put(@, n, "InQueue")]
                     ELSE self
         IN  DijkstraExpandNotStrict(g, next, pos, current_dist, Tail(nbrs))

\* the for loop of Dijkstra::step
RECURSIVE DijkstraExpand(_, _, _, _, _)
DijkstraExpand(g, self, pos, current_dist, nbrs) ==
    IF nbrs = <<>> THEN self
    ELSE LET n == Head(nbrs)
             skip == IsWall(g, n) \/ n \in self.visited
             new_dist == AddU32(current_dist, 1)
             old_dist == GetOrMax(self.distances, n)
             next == IF ~skip /\ new_dist < old_dist
                     THEN [self EXCEPT
                              !.distances = Put(@, n, new_dist),
                              !.parents = Put(@, n, pos),
                              !.heap = @ \cup {[position |-> n,
                                                distance |-> new_dist]},
                              !.node_states = Put(@, n, "InQueue")]
                     ELSE self
         IN  DijkstraExpand(g, next, pos, current_dist, Tail(nbrs))

\* Dijkstra::step when the pop returns `current` (any value when there is no pop)
DijkstraStepOf(g, self, s, e, current) ==
    IF AlreadyFinished(self) THEN StepNoop(self)
    ELSE IF self.heap = {} THEN StepEmpty(self)
    ELSE LET pos == current.position
             popped == [self EXCEPT !.heap = @ \ {current}]
         IN  IF pos \in popped.visited THEN StepStale(popped)
             ELSE LET v == Visit(popped, pos)
                  IN  IF pos = e THEN StepEnd(v, s, e, g.width * g.height)
                      ELSE StepExpanded(
                               DijkstraExpand(g, v, pos,
                                              GetOrMax(v.distances, pos),
                                              Neighbors(g, pos[1], pos[2])))

\* the for loop of AStar::step
RECURSIVE AStarExpand(_, _, _, _, _, _)
AStarExpand(g, self, pos, e, current_g, nbrs) ==
    IF nbrs = <<>> THEN self
    ELSE LET n == Head(nbrs)
             skip == IsWall(g, n) \/ n \in self.visited
             new_g == AddU32(current_g, 1)
             old_g == GetOrMax(self.distances, n)
             new_f == AddU32(new_g, HeuristicManhattan(n, e))
             next == IF ~skip /\ new_g < old_g
                     THEN [self EXCEPT
                              !.distances = Put(@, n, new_g),
                              !.parents = Put(@, n, pos),
                              !.heap = @ \cup {[position |-> n, g_cost |-> new_g,
                                                f_cost |-> new_f]},
                              !.node_states = Put(@, n, "InQueue")]
                     ELSE self
         IN  AStarExpand(g, next, pos, e, current_g, Tail(nbrs))

\* AStar::step when the pop returns `current`
AStarStepOf(g, self, s, e, current) ==
    IF AlreadyFinished(self) THEN StepNoop(self)
    ELSE IF self.heap = {} THEN StepEmpty(self)
    ELSE LET pos == current.position
             popped == [self EXCEPT !.heap = @ \ {current}]
         IN  IF pos \in popped.visited THEN StepStale(popped)
             ELSE LET v == Visit(popped, pos)
                  IN  IF pos = e THEN StepEnd(v, s, e, g.width * g.height)
                      ELSE StepExpanded(
                               AStarExpand(g, v, pos, e,
                                           GetOrMax(v.distances, pos),
                                           Neighbors(g, pos[1], pos[2])))

\* create_algorithm (main.rs): the constructor of the chosen variant
NewAlgorithm(a, s, e) ==
    CASE a = "Bfs" -> NewBfs(s, e)
      [] a = "Dfs" -> NewDfs(s, e)
      [] a = "Dijkstra" -> NewDijkstra(s, e)
      [] a = "AStar" -> NewAStar(s, e)

(***************************************************************************)
(* The searches as a state machine: one instance on one grid that does not *)
(* change, and one action per implementation of step().                    *)
(***************************************************************************)
\* the instance has the fields of record r
InstanceIs(r) ==
    /\ queue = r.queue
    /\ heap = r.heap
    /\ visited = r.visited
    /\ parents = r.parents
    /\ distances = r.distances
    /\ node_states = r.node_states
    /\ finished = r.finished
    /\ found_path = r.found_path

\* the pop counts after a step with result r, which popped `current` unless it
\* left before the pop or found the frontier empty
Counted(r, current) ==
    [self |-> r.self, ret |-> r.ret, branch |-> r.branch,
     pops |-> IF r.branch \in {"stale", "end", "expand"}
              THEN Put(pops, current,
                       IF current \in DOMAIN pops THEN pops[current] + 1 ELSE 1)
              ELSE pops]

\* the instance, the returned value and the history after a step with outcome o
Apply(o) ==
    /\ queue' = o.self.queue
    /\ heap' = o.self.heap
    /\ visited' = o.self.visited
    /\ parents' = o.self.parents
    /\ distances' = o.self.distances
    /\ node_states' = o.self.node_states
    /\ finished' = o.self.finished
    /\ found_path' = o.self.found_path
    /\ ret' = o.ret
    /\ branch' = o.branch
    /\ pops' = o.pops
    /\ UNCHANGED <<grid, alg, start, end, gen, rng, grid2, pc, op, got, panicked>>

\* a grid of the given size whose Wall cells are exactly `walls`
GridWithWalls(w, h, walls) ==
    [width |-> w, height |-> h,
     cells |-> [y \in 1..h |->
                  [x \in 1..w |->
                     IF <<x - 1, y - 1>> \in walls THEN "Wall" ELSE "Empty"]]]

\* no generator is running
CaveIdle ==
    /\ gen = [smoothing_passes |-> 0]
    /\ rng = [fill |-> <<>>, pick |-> 0]
    /\ grid2 = GridNew(0, 0)
    /\ pc = "idle"

\* no direct Grid call has been made
OpIdle ==
    /\ op = [name |-> "none", x |-> 0, y |-> 0, cell |-> "Empty"]
    /\ got = None
    /\ panicked = FALSE

\* no search instance exists
SearchIdle ==
    /\ alg = "none"
    /\ start = <<0, 0>>
    /\ end = <<0, 0>>
    /\ InstanceIs(NewBfs(<<0, 0>>, <<0, 0>>))
    /\ ret = TRUE
    /\ branch = "none"
    /\ pops = EmptyMap

\* any grid within the bounds, and a fresh instance of any variant between any
\* two in-bounds positions
Init ==
    /\ \E w \in 1..Width, h \in 1..Height :
         \E walls \in {ws \in SUBSET ((0..(w - 1)) \X (0..(h - 1))) :
                          Cardinality(ws) <= MaxWalls} :
            grid = GridWithWalls(w, h, walls)
    /\ alg \in Algs
    /\ start \in Positions(grid)
    /\ end \in Positions(grid)
    /\ InstanceIs(NewAlgorithm(alg, start, end))
    /\ ret = TRUE
    /\ branch = "new"
    /\ pops = EmptyMap
    /\ CaveIdle
    /\ OpIdle

\* the entries the pop of step() may return; one placeholder when step() does
\* not reach the pop or the heap is empty
PopChoices(top) ==
    IF finished \/ heap = {} THEN {[position |-> start]} ELSE top

\* what one call of step() may make of the instance, per variant
BfsOutcomes ==
    {Counted(BfsStepOf(grid, Self, start, end),
             IF queue = <<>> THEN start ELSE Head(queue))}

DfsOutcomes ==
    {Counted(DfsStepOf(grid, Self, start, end),
             IF queue = <<>> THEN start ELSE queue[Len(queue)])}

DijkstraOutcomes ==
    {Counted(DijkstraStepOf(grid, Self, start, end, current), current.position) :
        current \in PopChoices(DijkstraHeapTop(heap))}

AStarOutcomes ==
    {Counted(AStarStepOf(grid, Self, start, end, current), current.position) :
        current \in PopChoices(AStarHeapTop(heap))}

BfsStep ==
    /\ alg = "Bfs"
    /\ \E o \in BfsOutcomes : Apply(o)

DfsStep ==
    /\ alg = "Dfs"
    /\ \E o \in DfsOutcomes : Apply(o)

DijkstraStep ==
    /\ alg = "Dijkstra"
    /\ \E o \in DijkstraOutcomes : Apply(o)

AStarStep ==
    /\ alg = "AStar"
    /\ \E o \in AStarOutcomes : Apply(o)

Next == BfsStep \/ DfsStep \/ DijkstraStep \/ AStarStep

Spec == Init /\ [][Next]_vars

\* a call of step() would change the state: ENABLED <<Next>>_vars, computed
\* from the outcomes the four actions apply
StepChanges ==
    LET now == [self |-> Self, ret |-> ret, branch |-> branch, pops |-> pops]
        outcomes == CASE alg = "Bfs" -> BfsOutcomes
                      [] alg = "Dfs" -> DfsOutcomes
                      [] alg = "Dijkstra" -> DijkstraOutcomes
                      [] alg = "AStar" -> AStarOutcomes
                      [] OTHER -> {}
    IN  \E o \in outcomes : o # now

\* The driver keeps calling step() while the search runs (main.rs, the stepping
\* loop): weak fairness of Next, WF_vars(Next), written out as
\* []<>~ENABLED <<Next>>_vars \/ []<><<Next>>_vars with StepChanges for the
\* ENABLED.
FairSpec == Spec /\ ([]<>(~StepChanges) \/ []<><<Next>>_vars)

(***************************************************************************)
(* cellular_automata.rs                                                    *)
(*                                                                         *)
(* The stream of StdRng::seed_from_u64(seed) is a function of the seed.    *)
(* generate() draws from it one f32 per interior cell, in row-major order  *)
(* (rng.fill[i]: the i-th draw is below wall_change), and then one index   *)
(* with gen_range (rng.pick, reduced to the range asked for).              *)
(***************************************************************************)
\* the positions of a grid in the order of `for y in 0..height { for x in 0..width`
RowMajor(g) ==
    [i \in 1..(g.width * g.height) |-> <<(i - 1) % g.width, (i - 1) \div g.width>>]

\* is_border of random_fill
IsBorder(g, x, y) == x = 0 \/ y = 0 \/ x = g.width - 1 \/ y = g.height - 1

\* how many draws random_fill has made before it reaches interior cell (x, y)
DrawsBefore(g, x, y) == (y - 1) * (g.width - 2) + (x - 1)

\* random_fill: every cell is set once, the border to Wall, an interior cell
\* by the next draw
RandomFill(g, fill) ==
    [g EXCEPT !.cells =
        [yy \in 1..g.height |->
            [xx \in 1..g.width |->
                IF IsBorder(g, xx - 1, yy - 1) THEN "Wall"
                ELSE IF fill[DrawsBefore(g, xx - 1, yy - 1) + 1] THEN "Wall"
                ELSE "Empty"]]]

\* not count_wall_neighbors: the 8 cells around (x, y), without (x, y) itself
CountWallsAround(g, x, y) ==
    Cardinality({o \in Range(Offsets) \ {<<0, 0>>} :
                    LET nx == x + o[1]
                        ny == y + o[2]
                    IN  \/ nx < 0
                        \/ ny < 0
                        \/ nx >= g.width
                        \/ ny >= g.height
                        \/ GridGet(g, nx, ny) = "Wall"})

\* count_wall_neighbors: the 3x3 window, its centre included
CountWallNeighbors(g, x, y) ==
    Cardinality({o \in Range(Offsets) :
                    LET nx == x + o[1]
                        ny == y + o[2]
                    IN  \/ nx < 0
                        \/ ny < 0
                        \/ nx >= g.width
                        \/ ny >= g.height
                        \/ GridGet(g, nx, ny) = "Wall"})

\* smooth from interior cell (x, y) on, in place: the cells before it in the
\* scan already hold their new values
RECURSIVE SmoothFrom(_, _, _)
SmoothFrom(g, x, y) ==
    IF y >= g.height - 1 THEN g
    ELSE IF x >= g.width - 1 THEN SmoothFrom(g, 1, y + 1)
    ELSE LET wall_count == CountWallNeighbors(g, x, y)
             next == IF wall_count >= 5 THEN GridSet(g, x, y, "Wall")
                     ELSE IF wall_count < 4 THEN GridSet(g, x, y, "Empty")
                     ELSE g
         IN  SmoothFrom(next, x + 1, y)

\* not smooth: every interior cell is decided by the counts of the grid as it
\* was when the pass began
SmoothSnapshot(g) ==
    [g EXCEPT !.cells =
        [yy \in 1..g.height |->
            [xx \in 1..g.width |->
                IF xx - 1 < 1 \/ yy - 1 < 1 \/ xx - 1 >= g.width - 1 \/ yy - 1 >= g.height - 1
                THEN g.cells[yy][xx]
                ELSE LET wall_count == CountWallNeighbors(g, xx - 1, yy - 1)
                     IN  IF wall_count >= 5 THEN "Wall"
                         ELSE IF wall_count < 4 THEN "Empty"
                         ELSE g.cells[yy][xx]]]]

\* smooth
Smooth(g) == SmoothFrom(g, 1, 1)

\* `for _ in 0..self.smoothing_passes { self.smooth(grid); }`
RECURSIVE SmoothPasses(_, _)
SmoothPasses(g, n) == IF n = 0 THEN g ELSE SmoothPasses(Smooth(g), n - 1)

\* the while loop of flood_fill: [region, visited] when the queue is empty
RECURSIVE FloodLoop(_, _, _, _)
FloodLoop(g, q, seen, region) ==
    IF q = <<>> THEN [region |-> region, visited |-> seen]
    ELSE LET c == Head(q)
         IN  IF c \in seen \/ GridGet(g, c[1], c[2]) # "Empty"
             THEN FloodLoop(g, Tail(q), seen, region)
             ELSE FloodLoop(g, Tail(q) \o Neighbors(g, c[1], c[2]),
                            seen \cup {c}, region \cup {c})

\* flood_fill
FloodFill(g, x, y, seen) == FloodLoop(g, <<<<x, y>>>>, seen, {})

\* the two loops of find_regions over the positions ps that are left: the
\* regions found, region_id + 1 being the place of a region in the sequence
RECURSIVE FindRegionsFrom(_, _, _, _)
FindRegionsFrom(g, ps, seen, regions) ==
    IF ps = <<>> THEN regions
    ELSE LET c == Head(ps)
         IN  IF GridGet(g, c[1], c[2]) # "Empty" \/ c \in seen
             THEN FindRegionsFrom(g, Tail(ps), seen, regions)
             ELSE LET f == FloodFill(g, c[1], c[2], seen)
                  IN  FindRegionsFrom(g, Tail(ps), f.visited,
                                      Append(regions, f.region))

\* find_regions
FindRegions(g) == FindRegionsFrom(g, RowMajor(g), {}, <<>>)

\* regions.iter().max_by_key(|(_, cells)| cells.len()): the last of the largest
\* regions in the iteration order of the HashMap, which is any of them (the
\* order of a std HashMap differs from one map to the next)
LargestChoices(regions) ==
    {i \in 1..Len(regions) :
        \A j \in 1..Len(regions) : Cardinality(regions[j]) <= Cardinality(regions[i])}

\* a second loop that prunes nothing
PruneNone(g, regions, largest) == g

\* the second loop of keep_largest_region: every cell of every other region
\* is set to Wall
PruneOthers(g, regions, largest) ==
    LET others == UNION {regions[j] : j \in (1..Len(regions)) \ {largest}}
    IN  [g EXCEPT !.cells =
            [yy \in 1..g.height |->
                [xx \in 1..g.width |->
                    IF <<xx - 1, yy - 1>> \in others THEN "Wall"
                    ELSE g.cells[yy][xx]]]]

\* keep_largest_region: the grids it may leave
KeepLargestRegion(g) ==
    LET regions == FindRegions(g)
    IN  IF regions = <<>> THEN {g}
        ELSE {PruneOthers(g, regions, largest) : largest \in LargestChoices(regions)}

\* the for loop of find_furthest over the neighbours of the dequeued cell
RECURSIVE FurthestExpand(_, _, _, _)
FurthestExpand(g, nbrs, q, seen) ==
    IF nbrs = <<>> THEN [queue |-> q, visited |-> seen]
    ELSE LET n == Head(nbrs)
         IN  IF n \in seen \/ GridGet(g, n[1], n[2]) # "Empty"
             THEN FurthestExpand(g, Tail(nbrs), q, seen)
             ELSE FurthestExpand(g, Tail(nbrs), Append(q, n), seen \cup {n})

\* not the while loop of find_furthest: the cell is taken from the back of
\* the queue
RECURSIVE FurthestLoopFromBack(_, _, _, _)
FurthestLoopFromBack(g, q, seen, furthest) ==
    IF q = <<>> THEN furthest
    ELSE LET c == q[Len(q)]
             e == FurthestExpand(g, Neighbors(g, c[1], c[2]),
                                 SubSeq(q, 1, Len(q) - 1), seen)
         IN  FurthestLoopFromBack(g, e.queue, e.visited, c)

\* the while loop of find_furthest
RECURSIVE FurthestLoop(_, _, _, _)
FurthestLoop(g, q, seen, furthest) ==
    IF q = <<>> THEN furthest
    ELSE LET c == Head(q)
             e == FurthestExpand(g, Neighbors(g, c[1], c[2]), Tail(q), seen)
         IN  FurthestLoop(g, e.queue, e.visited, c)

\* find_furthest
FindFurthest(g, from) == FurthestLoop(g, <<from>>, {from}, from)

\* the first loops of place_endpoints: Start and End cells are reset to Empty
ResetEndpoints(g) ==
    [g EXCEPT !.cells =
        [yy \in 1..g.height |->
            [xx \in 1..g.width |->
                IF g.cells[yy][xx] \in {"Start", "End"} THEN "Empty"
                ELSE g.cells[yy][xx]]]]

\* floor_cells of place_endpoints: the Empty, Start and End cells in scan order
FloorCells(g) ==
    SelectSeq(RowMajor(g),
              LAMBDA c : GridGet(g, c[1], c[2]) \in {"Empty", "Start", "End"})

\* place_endpoints, when gen_range draws `pick`
PlaceEndpoints(g, pick) ==
    LET floor_cells == FloorCells(g)
        cleared == ResetEndpoints(g)
    IN  IF floor_cells = <<>> THEN cleared
        ELSE LET random_start == floor_cells[(pick % Len(floor_cells)) + 1]
                 far1 == FindFurthest(cleared, random_start)
                 far2 == FindFurthest(cleared, far1)
             IN  GridSet(GridSet(cleared, far1[1], far1[2], "Start"),
                         far2[1], far2[2], "End")

\* generate: the grids one run may leave
Generate(g, cfg, stream) ==
    LET filled == RandomFill(g, stream.fill)
        smoothed == SmoothPasses(filled, cfg.smoothing_passes)
    IN  {PlaceEndpoints(kept, stream.pick) : kept \in KeepLargestRegion(smoothed)}

(***************************************************************************)
(* The generator as a state machine: two runs of generate() with the same  *)
(* configuration and the same seed, each on a grid of its own.             *)
(***************************************************************************)
\* a grid all of whose cells hold c
GridOf(w, h, c) ==
    [width |-> w, height |-> h, cells |-> [y \in 1..h |-> [x \in 1..w |-> c]]]

\* the streams a seed may give a grid of the generated size
Streams ==
    [fill : [1..((CaveWidth - 2) * (CaveHeight - 2)) -> BOOLEAN],
     pick : 0..((CaveWidth - 2) * (CaveHeight - 2) - 1)]

CaveInit ==
    /\ gen \in [smoothing_passes : 0..MaxPasses]
    /\ rng \in Streams
    /\ grid = GridNew(CaveWidth, CaveHeight)
    /\ grid2 \in {GridOf(CaveWidth, CaveHeight, c) : c \in {"Empty", "Start"}}
    /\ pc = [run1 |-> "ready", run2 |-> "ready"]
    /\ SearchIdle
    /\ OpIdle

\* the first run of generate()
Generate1 ==
    /\ pc.run1 = "ready"
    /\ grid' \in Generate(grid, gen, rng)
    /\ pc' = [pc EXCEPT !.run1 = "done"]
    /\ UNCHANGED <<searchVars, gen, rng, grid2, opVars>>

\* the second run of generate(), on the other grid
Generate2 ==
    /\ pc.run2 = "ready"
    /\ grid2' \in Generate(grid2, gen, rng)
    /\ pc' = [pc EXCEPT !.run2 = "done"]
    /\ UNCHANGED <<searchVars, gen, rng, grid, opVars>>

CaveNext == Generate1 \/ Generate2

CaveSpec == CaveInit /\ [][CaveNext]_vars

(***************************************************************************)
(* generate() stage by stage on one grid: random_fill, the smoothing       *)
(* passes, keep_largest_region, and the calls of find_furthest that        *)
(* place_endpoints makes on the grid it has cleared.  pc.at is the stage   *)
(* that comes next, pc.passes the smoothing passes made, got what the last *)
(* find_furthest returned and op the cell it was called with.              *)
(***************************************************************************)
\* the streams a seed may give random_fill on a grid of the staged size
StageStreams ==
    [fill : [1..((StageWidth - 2) * (StageHeight - 2)) -> BOOLEAN], pick : {0}]

StageInit ==
    /\ gen = [smoothing_passes |-> MaxPasses]
    /\ rng \in StageStreams
    /\ grid = GridNew(StageWidth, StageHeight)
    /\ grid2 = GridNew(0, 0)
    /\ pc = [at |-> "random_fill", passes |-> 0]
    /\ SearchIdle
    /\ OpIdle

\* self.random_fill(grid, &mut rng)
FillStage ==
    /\ pc.at = "random_fill"
    /\ grid' = RandomFill(grid, rng.fill)
    /\ pc' = [pc EXCEPT !.at = "smooth"]
    /\ UNCHANGED <<searchVars, gen, rng, grid2, opVars>>

\* one turn of `for _ in 0..self.smoothing_passes { self.smooth(grid); }`
SmoothStage ==
    /\ pc.at = "smooth"
    /\ pc.passes < gen.smoothing_passes
    /\ grid' = Smooth(grid)
    /\ pc' = [pc EXCEPT !.passes = pc.passes + 1]
    /\ UNCHANGED <<searchVars, gen, rng, grid2, opVars>>

\* self.keep_largest_region(grid), once the passes are made
PruneStage ==
    /\ pc.at = "smooth"
    /\ pc.passes = gen.smoothing_passes
    /\ grid' \in KeepLargestRegion(grid)
    /\ pc' = [pc EXCEPT !.at = "place_endpoints"]
    /\ UNCHANGED <<searchVars, gen, rng, grid2, opVars>>

\* self.find_furthest(grid, from) of place_endpoints: from is a floor cell,
\* the one gen_range picked or the one the first call returned
FurthestCall ==
    /\ pc.at = "place_endpoints"
    /\ \E from \in Range(FloorCells(grid)) :
          /\ got' = FindFurthest(ResetEndpoints(grid), from)
          /\ op' = [name |-> "find_furthest", x |-> from[1], y |-> from[2],
                    cell |-> "Empty"]
    /\ UNCHANGED <<grid, panicked, searchVars, caveVars>>

StageNext == FillStage \/ SmoothStage \/ PruneStage \/ FurthestCall

StageSpec == StageInit /\ [][StageNext]_vars

(***************************************************************************)
(* generate() on grids of every small size, the empty ones included.  The  *)
(* bounds `grid.height - 1` and `grid.width - 1` of smooth are usize       *)
(* subtractions: on 0 a build with overflow checks panics and a build      *)
(* without them wraps to usize::MAX.  pc is "ready" before the call,       *)
(* "done" when generate has returned, "panicked" when it has panicked and  *)
(* "wrapped" when a loop of smooth runs to a wrapped bound.                *)
(***************************************************************************)
\* the streams a seed may give a grid of the largest of these sizes
SizeStreams ==
    [fill : [1..((MaxSize - 2) * (MaxSize - 2)) -> BOOLEAN],
     pick : 0..((MaxSize - 2) * (MaxSize - 2) - 1)]

\* smooth subtracts 1 from 0: `1..grid.height - 1` is evaluated on entry, and
\* `1..grid.width - 1` once for each y of the outer loop, which has a turn
\* when 1 < grid.height - 1
SmoothUnderflows(g) == g.height = 0 \/ (g.width = 0 /\ g.height >= 3)

\* generate reaches a subtraction of smooth that underflows
GenerateUnderflows == gen.smoothing_passes >= 1 /\ SmoothUnderflows(grid)

SizeInit ==
    /\ gen \in [smoothing_passes : 0..MaxPasses]
    /\ rng \in SizeStreams
    /\ \E w \in 0..MaxSize, h \in 0..MaxSize : grid = GridNew(w, h)
    /\ grid2 = GridNew(0, 0)
    /\ pc = "ready"
    /\ SearchIdle
    /\ OpIdle

\* generate() runs its four phases and returns
GenerateReturns ==
    /\ pc = "ready"
    /\ ~GenerateUnderflows
    /\ grid' \in Generate(grid, gen, rng)
    /\ pc' = "done"
    /\ UNCHANGED <<searchVars, gen, rng, grid2, opVars>>

\* generate() fills the grid and panics in smooth: overflow checks are on
GeneratePanics ==
    /\ pc = "ready"
    /\ GenerateUnderflows
    /\ grid' = RandomFill(grid, rng.fill)
    /\ panicked' = TRUE
    /\ pc' = "panicked"
    /\ UNCHANGED <<searchVars, gen, rng, grid2, op, got>>

\* generate() fills the grid and enters a loop of smooth whose bound has
\* wrapped to usize::MAX: overflow checks are off
GenerateWraps ==
    /\ pc = "ready"
    /\ GenerateUnderflows
    /\ grid' = RandomFill(grid, rng.fill)
    /\ pc' = "wrapped"
    /\ UNCHANGED <<searchVars, gen, rng, grid2, opVars>>

SizeNext == GenerateReturns \/ GeneratePanics \/ GenerateWraps

SizeSpec == SizeInit /\ [][SizeNext]_vars

(***************************************************************************)
(* count_wall_neighbors called as test_count_neighbors_cornre calls it: on *)
(* a grid built by Grid::new in which a few cells were set.  op is the     *)
(* last call and got what the last count_wall_neighbors returned.          *)
(***************************************************************************)
CountInit ==
    /\ \E w \in 1..CountWidth, h \in 1..CountHeight : grid = GridNew(w, h)
    /\ OpIdle
    /\ SearchIdle
    /\ CaveIdle

\* grid.set(x, y, cell) on a cell of the grid, while fewer than MaxCountSets
\* cells are set
CountSet ==
    \E c \in Positions(grid), cell \in {"Wall", "Start"} :
        /\ Cardinality({q \in Positions(grid) : GridGet(grid, q[1], q[2]) # "Empty"})
              < MaxCountSets
        /\ grid' = GridSet(grid, c[1], c[2], cell)
        /\ op' = [name |-> "set", x |-> c[1], y |-> c[2], cell |-> cell]
        /\ UNCHANGED <<got, panicked, searchVars, caveVars>>

\* generator.count_wall_neighbors(&grid, x, y)
CountCall ==
    \E c \in Positions(grid) :
        /\ got' = CountWallNeighbors(grid, c[1], c[2])
        /\ op' = [name |-> "count_wall_neighbors", x |-> c[1], y |-> c[2],
                  cell |-> "Empty"]
        /\ UNCHANGED <<grid, panicked, searchVars, caveVars>>

CountNext == CountSet \/ CountCall

CountSpec == CountInit /\ [][CountNext]_vars

(***************************************************************************)
(* Grid as a state machine: a grid built by Grid::new, and calls of get    *)
(* and set on it with coordinates in and beyond its bounds.  op is the     *)
(* last call, got what the last get returned, panicked whether a call      *)
(* has panicked.                                                           *)
(***************************************************************************)
GridInit ==
    /\ \E w \in 0..GridWidth, h \in 0..GridHeight : grid = GridNew(w, h)
    /\ OpIdle
    /\ SearchIdle
    /\ CaveIdle

\* grid.set(x, y, cell)
Set ==
    \E x \in 0..MaxCoord, y \in 0..MaxCoord, c \in Cell :
        /\ grid' = GridSet(grid, x, y, c)
        /\ panicked' = (panicked \/ GridSetPanics(grid, x, y))
        /\ op' = [name |-> "set", x |-> x, y |-> y, cell |-> c]
        /\ UNCHANGED <<got, searchVars, caveVars>>

\* grid.get(x, y)
Get ==
    \E x \in 0..MaxCoord, y \in 0..MaxCoord :
        /\ got' = GridGet(grid, x, y)
        /\ op' = [name |-> "get", x |-> x, y |-> y, cell |-> op.cell]
        /\ UNCHANGED <<grid, panicked, searchVars, caveVars>>

GridNext == Set \/ Get

GridSpec == GridInit /\ [][GridNext]_vars

(***************************************************************************)
(* The functions without state, called on a grid built by Grid::new: op is *)
(* the call and got what it returned.                                      *)
(***************************************************************************)
CallInit ==
    /\ \E w \in 1..CallWidth, h \in 1..CallHeight : grid = GridNew(w, h)
    /\ OpIdle
    /\ SearchIdle
    /\ CaveIdle

\* grid.neighbors(x, y), for the positions of the grid and one column and one
\* row beyond it
CallNeighbors ==
    \E x \in 0..grid.width, y \in 0..grid.height :
        /\ got' = Neighbors(grid, x, y)
        /\ op' = [name |-> "neighbors", x |-> x, y |-> y, cell |-> "Empty"]
        /\ UNCHANGED <<grid, panicked, searchVars, caveVars>>

\* heuristic_manhantan(from, to), for two positions of the grid
CallHeuristic ==
    \E from \in Positions(grid), to \in Positions(grid) :
        /\ got' = HeuristicManhattan(from, to)
        /\ op' = [name |-> "heuristic_manhantan", x |-> from, y |-> to,
                  cell |-> "Empty"]
        /\ UNCHANGED <<grid, panicked, searchVars, caveVars>>

CallNext == CallNeighbors \/ CallHeuristic

CallSpec == CallInit /\ [][CallNext]_vars

(***************************************************************************)
(* main.rs: the frame loop.  Every frame runs the handlers in the order of *)
(* the source: Tab, left mouse button, right mouse button, Space, G (or    *)
(* the first frame), the stepping loop.  pc.at is the handler the frame    *)
(* is at; whether a key or button is pressed, where the mouse is and how   *)
(* much frame time has passed are inputs.  path_algo is None when alg is   *)
(* "none", and otherwise the instance held by the search variables.        *)
(***************************************************************************)
\* AlgorithmType::all
AllAlgorithms == <<"Dijkstra", "AStar", "Bfs", "Dfs">>

\* AlgorithmType::next
NextAlgorithm(a) ==
    LET current_idx == CHOOSE i \in 1..Len(AllAlgorithms) : AllAlgorithms[i] = a
    IN  AllAlgorithms[(current_idx % Len(AllAlgorithms)) + 1]

\* what find_start_end leaves in `start` (c = "Start") or `end` (c = "End"):
\* the last such cell of the scan
LastCell(g, c) ==
    LET found == SelectSeq(RowMajor(g), LAMBDA q : GridGet(g, q[1], q[2]) = c)
    IN  IF found = <<>> THEN None ELSE found[Len(found)]

\* find_start_end
FindStartEnd(g) == <<LastCell(g, "Start"), LastCell(g, "End")>>

\* grid.get(x, y).unwrap_or(Cell::Empty)
GetOrEmpty(g, x, y) == IF GridGet(g, x, y) = None THEN "Empty" ELSE GridGet(g, x, y)

\* the left button handler with the mouse over (x, y)
LeftClickAt(g, x, y) ==
    GridSet(g, x, y, IF GetOrEmpty(g, x, y) = "Wall" THEN "Empty" ELSE "Wall")

\* a right button handler that places Start on any Empty cell
RightClickAlwaysStart(g, x, y) ==
    IF GetOrEmpty(g, x, y) = "Empty" THEN GridSet(g, x, y, "Start") ELSE g

\* the right button handler with the mouse over (x, y)
RightClickAt(g, x, y) ==
    LET current == GetOrEmpty(g, x, y)
        se == FindStartEnd(g)
    IN  IF se[1] = None /\ se[2] = None /\ current = "Empty"
        THEN GridSet(g, x, y, "Start")
        ELSE IF se[1] # None /\ se[2] = None /\ current = "Empty"
        THEN GridSet(g, x, y, "End")
        ELSE g

\* where mouse_to_grid may find the mouse; None when it is over no cell
MouseCells(g) ==
    {q \in Positions(g) : q[1] \in 1..MaxMouseX /\ q[2] \in 1..MaxMouseY} \cup {None}

\* CellularAutomata::default(), of which the model keeps smoothing_passes
Default == [smoothing_passes |-> 1]

\* the streams that the seeds of the driver may give
DriverStreams ==
    {s \in Streams :
        /\ s.pick = 0
        /\ Cardinality({i \in DOMAIN s.fill : s.fill[i]}) <= MaxWallDraws}

\* path_algo = None
NoAlgo ==
    [alg |-> "none", start |-> <<0, 0>>, end |-> <<0, 0>>,
     self |-> NewBfs(<<0, 0>>, <<0, 0>>), ret |-> TRUE, branch |-> "none",
     pops |-> EmptyMap]

\* path_algo = Some(create_algorithm(a, s, e))
SomeAlgo(a, s, e) ==
    [alg |-> a, start |-> s, end |-> e, self |-> NewAlgorithm(a, s, e),
     ret |-> TRUE, branch |-> "new", pops |-> EmptyMap]

\* path_algo is assigned
PathAlgoBecomes(o) ==
    /\ alg' = o.alg
    /\ start' = o.start
    /\ end' = o.end
    /\ queue' = o.self.queue
    /\ heap' = o.self.heap
    /\ visited' = o.self.visited
    /\ parents' = o.self.parents
    /\ distances' = o.self.distances
    /\ node_states' = o.self.node_states
    /\ finished' = o.self.finished
    /\ found_path' = o.self.found_path
    /\ ret' = o.ret
    /\ branch' = o.branch
    /\ pops' = o.pops

DriverInit ==
    /\ grid = GridNew(CaveWidth, CaveHeight)
    /\ pc = [app_state |-> "Editing", current_algorithm |-> "AStar",
             first_run |-> TRUE, at |-> "tab"]
    /\ SearchIdle
    /\ gen = Default
    /\ rng = [fill |-> <<>>, pick |-> 0]
    /\ grid2 = GridNew(0, 0)
    /\ OpIdle

\* if is_key_pressed(KeyCode::Tab)
Tab ==
    /\ pc.at = "tab"
    /\ \E pressed \in BOOLEAN :
         pc' = [pc EXCEPT !.at = "left",
                          !.current_algorithm =
                              IF pressed /\ pc.app_state = "Editing"
                              THEN NextAlgorithm(@) ELSE @]
    /\ UNCHANGED <<grid, searchVars, gen, rng, grid2, opVars>>

\* if is_mouse_button_pressed(MouseButton::Left)
LeftClick ==
    /\ pc.at = "left"
    /\ \E pressed \in BOOLEAN, m \in MouseCells(grid) :
         grid' = IF pressed /\ m # None THEN LeftClickAt(grid, m[1], m[2]) ELSE grid
    /\ pc' = [pc EXCEPT !.at = "right"]
    /\ UNCHANGED <<searchVars, gen, rng, grid2, opVars>>

\* if is_mouse_button_pressed(MouseButton::Right)
RightClick ==
    /\ pc.at = "right"
    /\ \E pressed \in BOOLEAN, m \in MouseCells(grid) :
         grid' = IF pressed /\ m # None THEN RightClickAt(grid, m[1], m[2]) ELSE grid
    /\ pc' = [pc EXCEPT !.at = "space"]
    /\ UNCHANGED <<searchVars, gen, rng, grid2, opVars>>

\* if is_key_pressed(KeyCode::Space)
Space ==
    /\ pc.at = "space"
    /\ \E pressed \in BOOLEAN :
         LET se == FindStartEnd(grid)
         IN  IF ~pressed
             THEN /\ pc' = [pc EXCEPT !.at = "generate"]
                  /\ UNCHANGED searchVars
             ELSE IF pc.app_state = "Editing"
             THEN IF se[1] # None /\ se[2] # None
                  THEN /\ PathAlgoBecomes(SomeAlgo(pc.current_algorithm, se[1], se[2]))
                       /\ pc' = [pc EXCEPT !.at = "generate", !.app_state = "Running"]
                  ELSE /\ pc' = [pc EXCEPT !.at = "generate"]
                       /\ UNCHANGED searchVars
             ELSE IF pc.app_state = "Running"
             THEN /\ pc' = [pc EXCEPT !.at = "generate", !.app_state = "Editing"]
                  /\ UNCHANGED searchVars
             ELSE /\ PathAlgoBecomes(NoAlgo)
                  /\ pc' = [pc EXCEPT !.at = "generate", !.app_state = "Editing"]
    /\ UNCHANGED <<grid, gen, rng, grid2, opVars>>

\* if is_key_pressed(KeyCode::G) || first_run
GenerateCave ==
    /\ pc.at = "generate"
    /\ \E pressed \in BOOLEAN :
         IF pressed \/ pc.first_run
         THEN /\ PathAlgoBecomes(NoAlgo)
              /\ \E s \in DriverStreams : grid' \in Generate(grid, gen, s)
              /\ pc' = [pc EXCEPT !.at = "step", !.app_state = "Editing",
                                  !.first_run = FALSE]
         ELSE /\ pc' = [pc EXCEPT !.at = "step"]
              /\ UNCHANGED <<grid, searchVars>>
    /\ UNCHANGED <<gen, rng, grid2, opVars>>

\* what d.step(&grid) may make of path_algo
StepOutcomes ==
    CASE alg = "Bfs" -> BfsOutcomes
      [] alg = "Dfs" -> DfsOutcomes
      [] alg = "Dijkstra" -> DijkstraOutcomes
      [] alg = "AStar" -> AStarOutcomes

\* one round of `while step_timer >= STEP_DELAY` in state Running
StepRound ==
    /\ pc.at = "step"
    /\ pc.app_state = "Running"
    /\ alg # "none"
    /\ \E o \in StepOutcomes :
         /\ PathAlgoBecomes([alg |-> alg, start |-> start, end |-> end,
                             self |-> o.self, ret |-> o.ret, branch |-> o.branch,
                             pops |-> o.pops])
         /\ pc' = IF o.ret THEN pc
                  ELSE [pc EXCEPT !.app_state = "Finished", !.at = "tab"]
    /\ UNCHANGED <<grid, gen, rng, grid2, opVars>>

\* the stepping loop is not entered or left with step_timer < STEP_DELAY, and
\* the frame is drawn
EndFrame ==
    /\ pc.at = "step"
    /\ pc' = [pc EXCEPT !.at = "tab"]
    /\ UNCHANGED <<grid, searchVars, gen, rng, grid2, opVars>>

DriverNext ==
    Tab \/ LeftClick \/ RightClick \/ Space \/ GenerateCave \/ StepRound \/ EndFrame

DriverSpec == DriverInit /\ [][DriverNext]_vars

(***************************************************************************)
(* What the properties of the searches are measured against: reachability  *)
(* and shortest distances of the grid itself, computed from the cells and  *)
(* not by any of the searches.                                             *)
(***************************************************************************)
Adjacent(p, q) == Abs(p[1] - q[1]) + Abs(p[2] - q[2]) = 1

Manhattan(p, q) == Abs(p[1] - q[1]) + Abs(p[2] - q[2])

WallAt(g, p) == g.cells[p[2] + 1][p[1] + 1] = "Wall"

\* the four positions one move away from p, in or out of the grid
Around(p) ==
    {<<p[1] - 1, p[2]>>, <<p[1] + 1, p[2]>>, <<p[1], p[2] - 1>>, <<p[1], p[2] + 1>>}

\* the cells one move from the set F that are in the grid, not a Wall and not
\* in S
Fringe(g, S, F) ==
    {q \in UNION {Around(p) : p \in F} :
        /\ q \in Positions(g)
        /\ ~WallAt(g, q)
        /\ q \notin S}

\* S, whose cells were all expanded but those of F, closed under moves
RECURSIVE Closure(_, _, _)
Closure(g, S, F) ==
    IF F = {} THEN S
    ELSE LET new == Fringe(g, S, F) IN Closure(g, S \cup new, new)

\* the positions that 4-adjacent moves into non-Wall cells reach from s
ReachableFrom(g, s) == Closure(g, {s}, {s})

\* breadth-first layers from s: d is the distance of the cells of F
RECURSIVE Layers(_, _, _, _, _)
Layers(g, S, F, e, d) ==
    IF e \in F THEN d
    ELSE IF F = {} THEN -1
    ELSE LET new == Fringe(g, S, F) IN Layers(g, S \cup new, new, e, d + 1)

\* the number of moves of a shortest such walk from s to e; -1 when there is none
ShortestLen(g, s, e) == Layers(g, {s}, {s}, e, 0)

\* the fields of the instance that step() may write
instance == <<queue, heap, visited, parents, distances, node_states, finished,
              found_path>>

\* the coordinates a caller may ask get_node_state about: the grid and one
\* column and one row beyond it
Coordinates == (0..grid.width) \X (0..grid.height)

\* C1: once is_finished() is true, a further step() returns false and leaves
\* the whole instance as it was, and with it the values of get_path() and of
\* get_node_state() at every coordinate.
C1_StepAfterFinished ==
    [][finished =>
         /\ ret' = FALSE
         /\ UNCHANGED instance
         /\ GetPath' = GetPath
         /\ \A c \in Coordinates :
               GetNodeState(c[1], c[2])' = GetNodeState(c[1], c[2])]_vars

\* a step() was called on a finished instance whose frontier still held entries
C1_Witness == finished /\ branch = "noop" /\ (queue # <<>> \/ heap # {})

\* C2: every search, stepped again and again, finishes; also without a path,
\* with duplicate stack entries (Dfs) and with positions pushed again (AStar).
C2_Terminates == <>finished

\* an AStar search that popped some position twice and ended without a path
C2_Witness ==
    /\ alg = "AStar"
    /\ finished
    /\ ~found_path
    /\ \E p \in DOMAIN pops : pops[p] >= 2

\* C3: a finished search has found_path() exactly when end is reachable from
\* start through cells that are not Wall; when it is not, get_path() is empty.
C3_FoundIffReachable ==
    finished =>
        LET reachable == end \in ReachableFrom(grid, start)
        IN  /\ found_path <=> reachable
            /\ ~reachable => GetPath = <<>>

\* a finished search that expanded positions and whose end, not a Wall itself,
\* is cut off from start
C3_Witness ==
    /\ finished
    /\ ~found_path
    /\ ~WallAt(grid, end)
    /\ ~WallAt(grid, start)
    /\ Cardinality(visited) >= 3
    /\ GetPath = <<>>

\* C4: the path of a finished, successful search goes from start to end by
\* 4-adjacent moves, repeats no position, and enters no Wall.
C4_PathIsValid ==
    (finished /\ found_path) =>
        LET path == GetPath
        IN  /\ Len(path) >= 1
            /\ path[1] = start
            /\ path[Len(path)] = end
            /\ \A i \in 1..(Len(path) - 1) : Adjacent(path[i], path[i + 1])
            /\ \A i, j \in 1..Len(path) : path[i] = path[j] => i = j
            /\ \A i \in 2..Len(path) : ~WallAt(grid, path[i])

\* a Dfs search that found a path of five or more positions around Walls
C4_Witness ==
    /\ alg = "Dfs"
    /\ finished
    /\ found_path
    /\ Len(GetPath) >= 5
    /\ CellsOf(grid, "Wall") # {}

\* C5: the path of Bfs, Dijkstra and AStar has as many edges as a shortest
\* walk from start to end, which on a grid without Walls is the Manhattan
\* distance; the path of Dfs has at least as many.
C5_ShortestPath ==
    (finished /\ found_path) =>
        LET edges == Len(GetPath) - 1
            best == ShortestLen(grid, start, end)
        IN  /\ alg \in {"Bfs", "Dijkstra", "AStar"} => edges = best
            /\ (alg # "Dfs" /\ CellsOf(grid, "Wall") = {}) =>
                  edges = Manhattan(start, end)
            /\ alg = "Dfs" => edges >= best

\* an AStar search whose shortest path is a detour around Walls
C5_Witness ==
    /\ alg = "AStar"
    /\ finished
    /\ found_path
    /\ Len(GetPath) - 1 > Manhattan(start, end)
    /\ Len(GetPath) - 1 = ShortestLen(grid, start, end)

\* C6 as stated: on a fresh instance get_node_state is Unvisited everywhere,
\* start included.
C6_FreshAllUnvisited ==
    branch = "new" =>
        \A c \in Coordinates : GetNodeState(c[1], c[2]) = "Unvisited"

\* C6 amended: on a fresh instance get_node_state is Unvisited at every
\* coordinate other than start; at start it is InQueue for Bfs, Dfs and
\* Dijkstra and Unvisited for AStar.
C6_FreshUnvisitedButStart ==
    branch = "new" =>
        \A c \in Coordinates :
            GetNodeState(c[1], c[2]) =
                IF c = start /\ alg # "AStar" THEN "InQueue" ELSE "Unvisited"

\* a fresh Dijkstra instance, asked about its start
C6_Witness ==
    /\ branch = "new"
    /\ alg = "Dijkstra"
    /\ GetNodeState(start[1], start[2]) = "InQueue"

\* the Empty cells one move from the set F that are not in S
EmptyFringe(g, S, F) ==
    {q \in UNION {Around(p) : p \in F} : q \in CellsOf(g, "Empty") /\ q \notin S}

\* S closed under moves into Empty cells, F being the cells not yet expanded
RECURSIVE EmptyClosure(_, _, _)
EmptyClosure(g, S, F) ==
    IF F = {} THEN S
    ELSE LET new == EmptyFringe(g, S, F) IN EmptyClosure(g, S \cup new, new)

\* the grids that a finished run of generate() has left
Generated ==
    (IF pc.run1 = "done" THEN {grid} ELSE {}) \cup
    (IF pc.run2 = "done" THEN {grid2} ELSE {})

\* the grid that keep_largest_region is handed in the runs of this behaviour
Smoothed == SmoothPasses(RandomFill(grid2, rng.fill), gen.smoothing_passes)

\* C7: two runs of generate() with the same seed and configuration on grids of
\* the same width and height end with the same cell matrix, whatever order
\* the region map of keep_largest_region is iterated in.
C7_SameSeedSameCells ==
    (pc.run1 = "done" /\ pc.run2 = "done") => grid.cells = grid2.cells

\* C8: after generate(), if the grid holds a Start cell then every Empty cell
\* is reached from it by 4-adjacent moves through Empty cells only.
C8_EmptyCellsConnected ==
    \A g \in Generated :
        \A s \in CellsOf(g, "Start") :
            CellsOf(g, "Empty") \subseteq EmptyClosure(g, {s}, {s})

\* a run has ended with a Start cell and Empty cells after keep_largest_region
\* was handed more than one region
C8_Witness ==
    /\ pc.run1 = "done"
    /\ CellsOf(grid, "Start") # {}
    /\ Cardinality(CellsOf(grid, "Empty")) >= 2
    /\ Len(FindRegions(Smoothed)) >= 2

\* C9: after generate(), the grid holds no Start and no End cell if no floor
\* cell is left, and exactly one Start cell and one End cell otherwise.
C9_OneStartOneEnd ==
    \A g \in Generated :
        IF CellsOf(g, "Wall") = Positions(g)
        THEN TRUE
        ELSE /\ Cardinality(CellsOf(g, "Start")) = 1
             /\ Cardinality(CellsOf(g, "End")) = 1

\* C10: get beyond the bounds returns None, set beyond the bounds changes no
\* cell, set within the bounds changes that cell and no other and a get of it
\* then returns what was set, and no call panics.
C10_BoundsHandling ==
    [][LET outside == op'.x >= grid.width \/ op'.y >= grid.height
       IN  /\ panicked' = FALSE
           /\ (op'.name = "get" /\ outside) => got' = None
           /\ (op'.name = "set" /\ outside) => grid'.cells = grid.cells
           /\ (op'.name = "set" /\ ~outside) =>
                 /\ GridGet(grid', op'.x, op'.y) = op'.cell
                 /\ \A p \in Positions(grid) \ {<<op'.x, op'.y>>} :
                       GridGet(grid', p[1], p[2]) = GridGet(grid, p[1], p[2])
           /\ (/\ op.name = "set"
               /\ op.x < grid.width
               /\ op.y < grid.height
               /\ op'.name = "get"
               /\ op'.x = op.x
               /\ op'.y = op.y) => got' = op.cell
      ]_vars

\* a get of the cell that the call before it has set to Wall, on a grid that
\* a set beyond its bounds was tried on too
C10_Witness ==
    /\ op.name = "get"
    /\ got = "Wall"
    /\ GridGet(grid, op.x, op.y) = "Wall"
    /\ CellsOf(grid, "End") # {}
    /\ ~panicked

\* C11: for an in-bounds (x, y), neighbors(x, y) holds, each once, exactly the
\* in-bounds positions among (x-1, y), (x+1, y), (x, y-1), (x, y+1): 4 of them
\* for an interior cell, 3 for an edge cell that is no corner, 2 for a corner
\* of a grid at least 2 wide and 2 high.
C11_NeighborsOrthogonal ==
    (op.name = "neighbors" /\ <<op.x, op.y>> \in Positions(grid)) =>
        LET onLeftRight == op.x = 0 \/ op.x = grid.width - 1
            onTopBottom == op.y = 0 \/ op.y = grid.height - 1
        IN  /\ Range(got) = Around(<<op.x, op.y>>) \cap Positions(grid)
            /\ Cardinality(Range(got)) = Len(got)
            /\ (~onLeftRight /\ ~onTopBottom) => Len(got) = 4
            /\ (grid.width >= 2 /\ grid.height >= 2 /\ onLeftRight /\ onTopBottom)
                   => Len(got) = 2
            /\ (grid.width >= 2 /\ grid.height >= 2 /\ onLeftRight # onTopBottom)
                   => Len(got) = 3

\* neighbors was called on an interior cell whose four diagonals are in bounds
C11_Witness ==
    /\ op.name = "neighbors"
    /\ op.x >= 1 /\ op.x < grid.width - 1
    /\ op.y >= 1 /\ op.y < grid.height - 1
    /\ Len(got) = 4

\* C12: heuristic_manhantan(a, b) equals heuristic_manhantan(b, a) and equals
\* |a.x - b.x| + |a.y - b.y|, for the positions a and b of a grid.
C12_HeuristicSymmetric ==
    op.name = "heuristic_manhantan" =>
        /\ got = HeuristicManhattan(op.y, op.x)
        /\ got = Manhattan(op.x, op.y)
        /\ (op.x = <<0, 0>> /\ op.y = <<2, 2>>) => got = 4

\* the heuristic was asked for (0, 0) and (2, 2), and for a pair where `from`
\* lies beyond `to` in both coordinates
C12_Witness ==
    /\ op.name = "heuristic_manhantan"
    /\ \/ op.x = <<0, 0>> /\ op.y = <<2, 2>> /\ got = 4
       \/ op.x[1] > op.y[1] /\ op.x[2] > op.y[2] /\ got >= 2

\* C13: in Dfs, a step() that pops a position already in visited only removes
\* that stack entry: it pushes nothing and changes no tag, no parent and not
\* the visited set, so that no position is expanded more than once.
C13_DfsSkipsVisited ==
    [][(alg = "Dfs" /\ ~finished /\ queue # <<>>) =>
          /\ queue[Len(queue)] \in visited =>
                /\ queue' = SubSeq(queue, 1, Len(queue) - 1)
                /\ UNCHANGED <<visited, parents, node_states, finished, found_path>>
                /\ ret' = TRUE
          /\ \A p \in DOMAIN pops' : pops'[p] <= 1
      ]_vars

\* C14: when several regions share the largest size, keep_largest_region
\* keeps the one found first in the row-major scan, and every cell of every
\* other region becomes Wall.
C14_FirstLargestKept ==
    \A g \in Generated :
        LET regions == FindRegions(Smoothed)
        IN  regions # <<>> =>
                LET first == CHOOSE i \in LargestChoices(regions) :
                                 \A j \in LargestChoices(regions) : i <= j
                IN  \A j \in 1..Len(regions) :
                        \A c \in regions[j] :
                            (GridGet(g, c[1], c[2]) = "Wall") <=> (j # first)

\* C15: in the driver the grid holds at most one Start cell and at most one
\* End cell, whatever clicks, Space presses and cave generations came before.
C15_OneStartOneEndAtMost ==
    /\ Cardinality(CellsOf(grid, "Start")) <= 1
    /\ Cardinality(CellsOf(grid, "End")) <= 1

\* after a generation, two right clicks have placed Start on (1, 1) and End on
\* (2, 1), cells that the left button had opened
C15_Witness ==
    /\ pc.at \in {"space", "generate", "step"}
    /\ ~pc.first_run
    /\ GridGet(grid, 1, 1) = "Start"
    /\ GridGet(grid, 2, 1) = "End"

\* C16: in the driver no cell of the grid changes while a search is running:
\* from the creation of the instance until it is finished or discarded.
C16_NoEditWhileRunning ==
    [][(/\ pc.app_state = "Running"
        /\ alg # "none"
        /\ ~finished
        /\ alg' # "none") => grid'.cells = grid.cells]_vars

\* the positions that following parents from k passes, k first and start
\* excluded, cut after as many links as the grid has cells
ChainOf(k) == WalkBack(parents, start, k, <<>>, grid.width * grid.height)

\* C17: the parent map is a tree rooted at start: start has no entry, every
\* recorded parent is visited and 4-adjacent to its child, and the links from
\* any key lead to start without passing a position twice, so that the walk
\* of get_path() and mark_path() ends at start and meets no missing link.
C17_ParentsFormTree ==
    /\ start \notin DOMAIN parents
    /\ \A k \in DOMAIN parents :
          /\ parents[k] \in visited
          /\ Adjacent(k, parents[k])
          /\ LET chain == ChainOf(k)
                 last == chain[Len(chain)]
             IN  /\ Cardinality(Range(chain)) = Len(chain)
                 /\ last \in DOMAIN parents
                 /\ parents[last] = start
    /\ found_path => /\ GetPath[1] = start
                     /\ GetPath[Len(GetPath)] = end

\* a Dfs search has found its end over a chain of at least four links
C17_Witness ==
    /\ alg = "Dfs"
    /\ found_path
    /\ Len(ChainOf(end)) >= 4
    /\ Cardinality(DOMAIN parents) >= 5

\* C18: in Dijkstra and AStar a step() that pops an entry whose position is
\* already visited removes that entry and nothing else: it returns true and
\* leaves visited, the costs, the parents, the tags, finished and found_path
\* as they were, and pushes nothing.
C18_StalePopOnlyRemoves ==
    [][(alg \in {"Dijkstra", "AStar"} /\ ~finished) =>
          \A n \in heap :
              (n \notin heap' /\ n.position \in visited) =>
                  /\ heap' = heap \ {n}
                  /\ ret' = TRUE
                  /\ UNCHANGED <<visited, distances, parents, node_states,
                                 finished, found_path>>
      ]_vars

\* an AStar step has just popped an entry of a position that an earlier step
\* had popped and visited
C18_Witness ==
    /\ alg = "AStar"
    /\ branch = "stale"
    /\ ret
    /\ ~finished
    /\ \E q \in visited : pops[q] >= 2

\* the accumulated cost that a frontier entry carries
EntryCost(e) == IF alg = "Dijkstra" THEN e.distance ELSE e.g_cost

\* parents.get(q), None when there is no entry
ParentOf(par, q) == IF q \in DOMAIN par THEN par[q] ELSE None

\* the positions that a step has relaxed: their cost entry or their parent
\* has changed, or a frontier entry for them was pushed
Relaxed ==
    {q \in Positions(grid) :
        \/ GetOrMax(distances', q) # GetOrMax(distances, q)
        \/ (q \in DOMAIN distances') # (q \in DOMAIN distances)
        \/ ParentOf(parents', q) # ParentOf(parents, q)
        \/ \E e \in heap' \ heap : e.position = q}

\* C19: in Dijkstra and AStar a neighbour is relaxed only when it is no Wall,
\* not visited and the cost of the current position plus 1 is strictly below
\* its recorded cost (none = infinite); its cost, its parent, one new frontier
\* entry and its InQueue tag are then written together.  No cost entry ever
\* increases, and the cost and the parent of a visited position never change.
C19_RelaxOnlyWhenCheaper ==
    [][(alg \in {"Dijkstra", "AStar"}) =>
          /\ \A q \in Relaxed :
                \E current \in visited' \ visited :
                    /\ Adjacent(current, q)
                    /\ ~WallAt(grid, q)
                    /\ q \notin visited'
                    /\ q \in DOMAIN distances'
                    /\ distances'[q] = distances[current] + 1
                    /\ distances'[q] < GetOrMax(distances, q)
                    /\ ParentOf(parents', q) = current
                    /\ GetNodeState(q[1], q[2])' = "InQueue"
                    /\ \E e \in heap' \ heap :
                          /\ {d \in heap' \ heap : d.position = q} = {e}
                          /\ EntryCost(e) = distances'[q]
          /\ \A q \in DOMAIN distances :
                /\ q \in DOMAIN distances'
                /\ distances'[q] <= distances[q]
          /\ \A q \in visited :
                /\ GetOrMax(distances', q) = GetOrMax(distances, q)
                /\ ParentOf(parents', q) = ParentOf(parents, q)
      ]_vars

\* an AStar expansion has left two frontier entries for one position: a later
\* relaxation has lowered the cost that an earlier one recorded
C19_Witness ==
    /\ alg = "AStar"
    /\ branch = "expand"
    /\ \E e1 \in heap, e2 \in heap :
          /\ e1.position = e2.position
          /\ e1.g_cost < e2.g_cost
          /\ distances[e1.position] = e1.g_cost

\* f = g + Manhattan(position, end) of an AStar frontier entry, from its g
EntryF(e) == e.g_cost + Manhattan(e.position, end)

\* C20: the entry that a Dijkstra step pops has the least distance of all
\* entries of the frontier; the entry that an AStar step pops has the least
\* f = g + Manhattan(position, end) and, among the entries of that f, the
\* largest g.
C20_PopsBestEntry ==
    [][(alg \in {"Dijkstra", "AStar"}) =>
          \A n \in heap \ heap' :
              \A m \in heap :
                  IF alg = "Dijkstra"
                  THEN n.distance <= m.distance
                  ELSE /\ n.f_cost = EntryF(n)
                       /\ EntryF(n) <= EntryF(m)
                       /\ EntryF(n) = EntryF(m) => n.g_cost >= m.g_cost
      ]_vars

\* an AStar search has popped and expanded a position while an entry of the
\* same f and a smaller g stays in the frontier
C20_Witness ==
    /\ alg = "AStar"
    /\ branch = "expand"
    /\ \E q \in visited, e \in heap :
          /\ distances[q] + Manhattan(q, end) = EntryF(e)
          /\ distances[q] > e.g_cost
          /\ e.position \notin visited
          /\ parents[e.position] \in visited \ {q}
          /\ pops[q] = 1

\* the queue holds no position twice and no visited position
QueueClean ==
    /\ Cardinality(Range(queue)) = Len(queue)
    /\ Range(queue) \cap visited = {}

\* C21: in Bfs the queue holds no position twice and no visited position; a
\* neighbour is enqueued only if it is no Wall, not visited and not tagged
\* InQueue, and then its parent becomes the current position and its tag
\* InQueue; no parent entry is written a second time.
C21_BfsEnqueuesOnce ==
    [][(alg = "Bfs") =>
          /\ QueueClean
          /\ QueueClean'
          /\ \A q \in DOMAIN parents :
                q \in DOMAIN parents' /\ parents'[q] = parents[q]
          /\ (~finished /\ queue # <<>>) =>
                LET current == Head(queue)
                    added == SubSeq(queue', Len(queue), Len(queue'))
                IN  /\ SubSeq(queue', 1, Len(queue) - 1) = Tail(queue)
                    /\ \A q \in Range(added) :
                          /\ Adjacent(current, q)
                          /\ ~WallAt(grid, q)
                          /\ q \notin visited'
                          /\ GetNodeState(q[1], q[2]) # "InQueue"
                          /\ q \notin DOMAIN parents
                          /\ parents'[q] = current
                          /\ GetNodeState(q[1], q[2])' = "InQueue"
      ]_vars

\* a Bfs expansion has enqueued nothing because the one open neighbour that
\* is not visited was waiting in the queue already
C21_Witness ==
    /\ alg = "Bfs"
    /\ branch = "expand"
    /\ Len(queue) >= 1
    /\ \E c \in visited :
          /\ pops[c] = 1
          /\ \E q \in Range(queue) :
                /\ Adjacent(c, q)
                /\ parents[q] # c
          /\ \A q \in Range(queue) : parents[q] # c

\* the place of a tag in the order Unvisited, InQueue, Visited, Path
TagRank(t) ==
    CASE t = "Unvisited" -> 0
      [] t = "InQueue" -> 1
      [] t = "Visited" -> 2
      [] t = "Path" -> 3

\* C22: from one step() to the next the tag of a position only moves forward
\* in the order Unvisited, InQueue, Visited, Path; Path appears only in the
\* step that sets found_path; after a step the tag of start is not Unvisited.
C22_TagsMoveForward ==
    [][/\ \A c \in Coordinates :
             /\ TagRank(GetNodeState(c[1], c[2])') >= TagRank(GetNodeState(c[1], c[2]))
             /\ (/\ GetNodeState(c[1], c[2])' = "Path"
                 /\ GetNodeState(c[1], c[2]) # "Path") => (found_path' /\ ~found_path)
       /\ GetNodeState(start[1], start[2])' # "Unvisited"
      ]_vars

\* an AStar search, whose start is not tagged at construction, has found a
\* path and left positions tagged InQueue and Visited beside it
C22_Witness ==
    /\ alg = "AStar"
    /\ found_path
    /\ GetNodeState(start[1], start[2]) = "Path"
    /\ \E q \in DOMAIN node_states :
          /\ node_states[q] = "InQueue"
    /\ \E q \in DOMAIN node_states :
          /\ node_states[q] = "Visited"

\* the positions whose get_node_state is Path
PathTagged == {c \in Coordinates : GetNodeState(c[1], c[2]) = "Path"}

\* C23: once a search is finished, the positions tagged Path are exactly the
\* positions of get_path() if found_path() is true, and there are none if it
\* is false.
C23_PathTagsArePath ==
    finished => PathTagged = (IF found_path THEN Range(GetPath) ELSE {})

\* a Dijkstra search has found a path of at least four positions around a
\* Wall and left visited positions beside it
C23_Witness ==
    /\ alg = "Dijkstra"
    /\ finished
    /\ found_path
    /\ Len(GetPath) >= 4
    /\ CellsOf(grid, "Wall") # {}
    /\ visited \ PathTagged # {}

\* C24: a call of step() returns true exactly when is_finished() is false
\* after it; finished never goes back to false; found_path is true only when
\* finished is true and end is visited, and it becomes true only in the step
\* that pops end.
C24_TerminalFlags ==
    [][/\ ret' = ~finished'
       /\ finished => finished'
       /\ found_path => (finished /\ end \in visited)
       /\ found_path' => (finished' /\ end \in visited')
       /\ (found_path' /\ ~found_path) =>
             /\ end \in visited' \ visited
             /\ end \in DOMAIN pops'
             /\ pops'[end] = 1
       /\ found_path => found_path'
      ]_vars

\* a Dfs search ended without a path by finding its stack empty, after steps
\* that returned true
C24_Witness ==
    /\ alg = "Dfs"
    /\ finished
    /\ ~found_path
    /\ ~ret
    /\ branch = "empty"
    /\ Cardinality(visited) >= 3

(***************************************************************************)
(* What the smoothing pass is measured against: the rule for one cell,     *)
(* stated on the grid before the pass and the grid after it.               *)
(***************************************************************************)
\* the cells of g that are not on its border
Interior(g) ==
    {c \in Positions(g) :
        c[1] > 0 /\ c[2] > 0 /\ c[1] < g.width - 1 /\ c[2] < g.height - 1}

\* a comes before b in a scan row by row
Earlier(a, b) == a[2] < b[2] \/ (a[2] = b[2] /\ a[1] < b[1])

\* the 3x3 window centred on c, in or out of the grid, with or without c
Window(c, centre) ==
    {<<c[1] + dx, c[2] + dy>> : dx \in -1..1, dy \in -1..1}
        \ (IF centre THEN {} ELSE {c})

\* what the scan of a pass from grid old to grid new holds at p when it
\* reaches c: the new value of a cell it has passed, the old value otherwise
SeenAt(old, new, c, p) ==
    IF p \in Interior(old) /\ Earlier(p, c) THEN GridGet(new, p[1], p[2])
    ELSE GridGet(old, p[1], p[2])

\* the positions of the window of c that are out of bounds or seen as Wall
WallsSeen(old, new, c, centre) ==
    Cardinality({p \in Window(c, centre) :
                    p \notin Positions(old) \/ SeenAt(old, new, c, p) = "Wall"})

\* new is old after one pass in which the count over the window decides
SmoothRule(old, new, centre) ==
    /\ new.width = old.width
    /\ new.height = old.height
    /\ \A c \in Positions(old) \ Interior(old) :
          GridGet(new, c[1], c[2]) = GridGet(old, c[1], c[2])
    /\ \A c \in Interior(old) :
          LET n == WallsSeen(old, new, c, centre)
          IN  GridGet(new, c[1], c[2]) =
                 IF n >= 5 THEN "Wall"
                 ELSE IF n < 4 THEN "Empty"
                 ELSE GridGet(old, c[1], c[2])

\* C25 as stated: a smoothing pass visits the interior cells row by row and
\* writes in place, and the count of Walls among the 8 cells around a cell,
\* out of bounds counting as Wall, decides it: 5 or more make it Wall, fewer
\* than 4 make it Empty, exactly 4 leave it; border cells are not changed.
C25_EightCellsDecide ==
    [][(pc'.passes = pc.passes + 1) => SmoothRule(grid, grid', FALSE)]_vars

\* C25: a smoothing pass visits the interior cells row by row and writes in
\* place, and the count over the 3x3 window of a cell, the cell itself
\* included and out of bounds counting as Wall, decides it: 5 or more make it
\* Wall, fewer than 4 make it Empty, exactly 4 leave it; border cells are not
\* changed.
C25_WindowWithCentreDecides ==
    [][(pc'.passes = pc.passes + 1) => SmoothRule(grid, grid', TRUE)]_vars

\* one pass has been made on the grid random_fill left; it kept a Wall that
\* has exactly 3 Walls among the 8 cells around it, made an Empty cell Wall,
\* and decided a cell by a neighbour it had already rewritten
C25_Witness ==
    /\ pc.at = "smooth"
    /\ pc.passes = 1
    /\ LET filled == RandomFill(GridNew(StageWidth, StageHeight), rng.fill)
       IN  /\ \E c \in Interior(filled) :
                 /\ GridGet(filled, c[1], c[2]) = "Wall"
                 /\ WallsSeen(filled, grid, c, FALSE) = 3
                 /\ GridGet(grid, c[1], c[2]) = "Wall"
           /\ \E c \in Interior(filled) :
                 /\ GridGet(filled, c[1], c[2]) = "Empty"
                 /\ GridGet(grid, c[1], c[2]) = "Wall"
           /\ \E c \in Interior(filled) :
                 /\ WallsSeen(filled, grid, c, TRUE) = 4
                 /\ WallsSeen(filled, filled, c, TRUE) # 4

\* the positions of g that hold a Wall
WallsOf(g) == {p \in Positions(g) : GridGet(g, p[1], p[2]) = "Wall"}

\* C26: count_wall_neighbors(grid, x, y) is the number of positions of the 3x3
\* window centred on (x, y), (x, y) included, that are out of bounds or hold
\* a Wall; it is 6 for the corner (0,0) of a 5x5 grid whose only Wall is (0,0).
C26_CountsWindowWithCentre ==
    (op.name = "count_wall_neighbors") =>
        /\ got = Cardinality({p \in Window(<<op.x, op.y>>, TRUE) :
                                 p \notin Positions(grid) \/ p \in WallsOf(grid)})
        /\ (/\ grid.width = 5
            /\ grid.height = 5
            /\ WallsOf(grid) = {<<0, 0>>}
            /\ op.x = 0
            /\ op.y = 0) => got = 6

\* the call of the test: the corner (0,0) of a 5x5 grid whose only Wall is (0,0)
C26_Witness ==
    /\ op.name = "count_wall_neighbors"
    /\ op.x = 0
    /\ op.y = 0
    /\ grid.width = 5
    /\ grid.height = 5
    /\ {p \in Positions(grid) : GridGet(grid, p[1], p[2]) # "Empty"} = {<<0, 0>>}
    /\ GridGet(grid, 0, 0) = "Wall"
    /\ got = 6

\* the positions of the sequence ps that are in the grid g, in the order of ps
InGrid(g, ps) == SelectSeq(ps, LAMBDA p : p \in Positions(g))

\* C27 as stated: Grid::neighbors(x, y) returns left (x-1, y), right (x+1, y),
\* up (x, y-1), down (x, y+1) in this order, without those out of bounds.
C27_LeftRightUpDown ==
    (op.name = "neighbors") =>
        got = InGrid(grid, << <<op.x - 1, op.y>>, <<op.x + 1, op.y>>,
                              <<op.x, op.y - 1>>, <<op.x, op.y + 1>> >>)

\* C27: Grid::neighbors(x, y) returns up (x, y-1), left (x-1, y), right
\* (x+1, y), down (x, y+1) in this order, the order of the loops over dy and
\* then dx, without those out of bounds.
C27_UpLeftRightDown ==
    (op.name = "neighbors") =>
        got = InGrid(grid, << <<op.x, op.y - 1>>, <<op.x - 1, op.y>>,
                              <<op.x + 1, op.y>>, <<op.x, op.y + 1>> >>)

\* neighbors was called on the cell (1, 2) of a grid in which it has all four
C27_Witness ==
    /\ op.name = "neighbors"
    /\ Len(got) = 4
    /\ got[1] = <<op.x, op.y - 1>>
    /\ got[2] = <<op.x - 1, op.y>>
    /\ got[3] = <<op.x + 1, op.y>>
    /\ got[4] = <<op.x, op.y + 1>>
    /\ op.x = 1
    /\ op.y = 2

\* C28: generate() is total over grid sizes: for every width and height, 0, 1
\* and 2 included, a call returns, with no arithmetic underflow in
\* `width - 1` or `height - 1` and no other failure.
C28_GenerateTotal ==
    (pc # "ready") => (pc = "done" /\ ~panicked)

\* the number of moves of a shortest walk through Empty cells to e, d being
\* the distance of the cells of F; -1 when there is none
RECURSIVE FloorLayers(_, _, _, _, _)
FloorLayers(g, S, F, e, d) ==
    IF e \in F THEN d
    ELSE IF F = {} THEN -1
    ELSE LET new == EmptyFringe(g, S, F)
         IN  FloorLayers(g, S \cup new, new, e, d + 1)

\* the cells that 4-adjacent moves through Empty cells reach from s
FloorReach(g, s) == EmptyClosure(g, {s}, {s})

\* the number of moves of a shortest walk through Empty cells from s to e
FloorDistance(g, s, e) == FloorLayers(g, {s}, {s}, e, 0)

\* C29: find_furthest(grid, from), for an Empty cell from, returns a cell
\* whose shortest 4-adjacent distance from `from` through Empty cells is the
\* largest among the Empty cells reachable from `from`, and it returns `from`
\* only when no other Empty cell is reachable.
C29_FurthestIsFarthest ==
    (op.name = "find_furthest") =>
        LET from == <<op.x, op.y>>
            reach == FloorReach(grid, from)
        IN  (GridGet(grid, from[1], from[2]) = "Empty") =>
               /\ got \in reach
               /\ \A c \in reach :
                     FloorDistance(grid, from, c) <= FloorDistance(grid, from, got)
               /\ (got = from) => (reach = {from})

\* find_furthest was called from an Empty cell that has Empty cells one, two
\* and three moves away, and returned one of those three moves away
C29_Witness ==
    /\ op.name = "find_furthest"
    /\ LET from == <<op.x, op.y>>
           reach == FloorReach(grid, from)
       IN  /\ GridGet(grid, from[1], from[2]) = "Empty"
           /\ FloorDistance(grid, from, got) = 3
           /\ Cardinality(reach) >= 5
           /\ Cardinality({c \in reach : FloorDistance(grid, from, c) = 3}) >= 2

=============================================================================
